---- MODULE Spec2Model ----
(***************************************************************************)
(* A model of pytools' reader-writer lock (src/src/thread.py, RWLock) and  *)
(* of its expiring key-value cache (src/src/cache.py, KVCache).            *)
(*                                                                         *)
(* Three specifications share the variables:                               *)
(*   SpecLock   threads calling the RWLock methods in any interleaving;    *)
(*   SpecCache  one client calling the KVCache methods one after another;  *)
(*   SpecConc   threads calling the KVCache methods concurrently, each     *)
(*              call taking the lock through KVCache._release_lock.        *)
(***************************************************************************)
EXTENDS Integers, Sequences, FiniteSets

VARIABLES
    \* ---- RWLock (thread.py:15-20) and the threads using it
    rwlock,           \* RWLock._rwlock: -1 a writer, 0 unlocked, n > 0 readers
    writers_waiting,  \* RWLock._writers_waiting
    readers_ok,       \* threads blocked in RWLock._readers_ok.wait
    writers_ok,       \* threads blocked in RWLock._writers_ok.wait, oldest first
    pc,               \* per thread: where it stands inside the current call
    call,             \* per thread: the RWLock method it is executing
    timed,            \* per thread: whether the current call was given a timeout
    hold,             \* per thread: the hold the caller owns by the API's contract
    wake,             \* per thread: release's wake_writers / wake_readers locals
    \* ---- KVCache (cache.py:49-54) and its single clock
    maxsize,          \* KVCache._maxsize
    time_extension,   \* KVCache._time_extension
    kv_data,          \* KVCache._kv_data: key -> <<expire_value, value>>
    sorted_keys,      \* KVCache._sorted_keys: the PriorityQueue's items
    now,              \* time.time()
    hung,             \* the client is blocked for ever inside a call
    last,             \* the last KVCache call: its name and what it returned
    \* ---- threads inside KVCache calls (SpecConc)
    op,               \* per thread: the KVCache method it is executing
    \* ---- history of the RWLock calls (SpecLock)
    ahead             \* per thread inside acquire_read: the threads that were
                      \* waiting in acquire_write when its call started and
                      \* have not yet had and given up the write lock

lockvars  == <<rwlock, writers_waiting, readers_ok, writers_ok, pc, call, timed, hold, wake>>
cachevars == <<maxsize, time_extension, kv_data, sorted_keys, now, hung, last>>
clientvars == <<op, ahead>>
vars      == <<lockvars, cachevars, clientvars>>

(***************************************************************************)
(* Bounds of the model.                                                    *)
(***************************************************************************)
NumThreads == 3
Threads    == 1..NumThreads

(***************************************************************************)
(* RWLock                                                                  *)
(***************************************************************************)

\* a reader's test that looks at the holder only
ReadMustWait_IgnoresWaitingWriters(rw, ww) == rw < 0

\* thread.py:31  while self._rwlock < 0 or self._writers_waiting:
ReadMustWait(rw, ww) == rw < 0 \/ ww # 0

\* thread.py:44 and thread.py:60  while self._rwlock > 0:
WriteMustWait(rw) == rw > 0

\* thread.py:75-78  the counter after release
ReleasedCount(rw) == IF rw < 0 THEN 0 ELSE rw - 1

\* thread.py:79-80  wake_writers, else wake_readers, else nobody
WakeChoice(rw, ww) ==
    IF ww # 0 /\ rw = 0 THEN "writers"
    ELSE IF ww = 0 THEN "readers"
    ELSE "nobody"

\* Condition.notify_all on _readers_ok: every waiter is woken and will next
\* re-acquire the monitor.
NotifyAllReaders(p) ==
    [t \in Threads |-> IF t \in readers_ok THEN "readers_woken" ELSE p[t]]

\* thread.py:15-20
LockInit ==
    /\ rwlock = 0
    /\ writers_waiting = 0
    /\ readers_ok = {}
    /\ writers_ok = <<>>
    /\ pc = [t \in Threads |-> "idle"]
    /\ call = [t \in Threads |-> "none"]
    /\ timed = [t \in Threads |-> FALSE]
    /\ hold = [t \in Threads |-> "none"]
    /\ wake = [t \in Threads |-> "nobody"]

\* thread.py:30-33, from the call to the first wait or to the return
acquire_read(t, timeout) ==
    /\ pc[t] = "idle" /\ hold[t] = "none"
    /\ IF ReadMustWait(rwlock, writers_waiting)
       THEN /\ readers_ok' = readers_ok \cup {t}
            /\ pc' = [pc EXCEPT ![t] = "readers_wait"]
            /\ call' = [call EXCEPT ![t] = "acquire_read"]
            /\ timed' = [timed EXCEPT ![t] = timeout]
            /\ UNCHANGED <<rwlock, hold>>
       ELSE /\ rwlock' = rwlock + 1
            /\ hold' = [hold EXCEPT ![t] = "read"]
            /\ UNCHANGED <<readers_ok, pc, call, timed>>
    /\ UNCHANGED <<writers_waiting, writers_ok, wake>>

\* thread.py:31-33, a woken reader re-acquires the monitor and re-tests
acquire_read_resume(t) ==
    /\ pc[t] \in {"readers_woken", "readers_expired"}
    /\ IF ReadMustWait(rwlock, writers_waiting)
       THEN /\ readers_ok' = readers_ok \cup {t}
            /\ pc' = [pc EXCEPT ![t] = "readers_wait"]
            /\ UNCHANGED <<rwlock, hold, call, timed>>
       ELSE /\ rwlock' = rwlock + 1
            /\ hold' = [hold EXCEPT ![t] = "read"]
            /\ pc' = [pc EXCEPT ![t] = "idle"]
            /\ call' = [call EXCEPT ![t] = "none"]
            /\ timed' = [timed EXCEPT ![t] = FALSE]
            /\ UNCHANGED readers_ok
    /\ UNCHANGED <<writers_waiting, writers_ok, wake>>

\* thread.py:43-48, from the call to the first wait or to the return
acquire_write(t, timeout) ==
    /\ pc[t] = "idle" /\ hold[t] = "none"
    /\ IF WriteMustWait(rwlock)
       THEN /\ writers_waiting' = writers_waiting + 1
            /\ writers_ok' = Append(writers_ok, t)
            /\ pc' = [pc EXCEPT ![t] = "writers_wait"]
            /\ call' = [call EXCEPT ![t] = "acquire_write"]
            /\ timed' = [timed EXCEPT ![t] = timeout]
            /\ UNCHANGED <<rwlock, hold>>
       ELSE /\ rwlock' = -1
            /\ hold' = [hold EXCEPT ![t] = "write"]
            /\ UNCHANGED <<writers_waiting, writers_ok, pc, call, timed>>
    /\ UNCHANGED <<readers_ok, wake>>

\* a promote that keeps its read hold counted in _rwlock while it waits for
\* the other readers to leave
promote_KeepsReadHold(t, timeout) ==
    /\ pc[t] = "idle" /\ hold[t] = "read"
    /\ IF WriteMustWait(rwlock - 1)
       THEN /\ writers_waiting' = writers_waiting + 1
            /\ writers_ok' = Append(writers_ok, t)
            /\ pc' = [pc EXCEPT ![t] = "writers_wait"]
            /\ call' = [call EXCEPT ![t] = "promote"]
            /\ timed' = [timed EXCEPT ![t] = timeout]
            /\ hold' = [hold EXCEPT ![t] = "none"]
            /\ UNCHANGED rwlock
       ELSE /\ rwlock' = -1
            /\ hold' = [hold EXCEPT ![t] = "write"]
            /\ UNCHANGED <<writers_waiting, writers_ok, pc, call, timed>>
    /\ UNCHANGED <<readers_ok, wake>>

\* thread.py:58-64, from the call to the first wait or to the return
promote(t, timeout) ==
    /\ pc[t] = "idle" /\ hold[t] = "read"
    /\ IF WriteMustWait(rwlock - 1)
       THEN /\ rwlock' = rwlock - 1
            /\ writers_waiting' = writers_waiting + 1
            /\ writers_ok' = Append(writers_ok, t)
            /\ pc' = [pc EXCEPT ![t] = "writers_wait"]
            /\ call' = [call EXCEPT ![t] = "promote"]
            /\ timed' = [timed EXCEPT ![t] = timeout]
            /\ hold' = [hold EXCEPT ![t] = "none"]
       ELSE /\ rwlock' = -1
            /\ hold' = [hold EXCEPT ![t] = "write"]
            /\ UNCHANGED <<writers_waiting, writers_ok, pc, call, timed>>
    /\ UNCHANGED <<readers_ok, wake>>

\* thread.py:44-48 and thread.py:60-64, a woken writer re-acquires the monitor,
\* takes itself off the count and re-tests
write_resume(t) ==
    /\ pc[t] \in {"writers_woken", "writers_expired"}
    /\ IF WriteMustWait(rwlock)
       THEN /\ writers_ok' = Append(writers_ok, t)
            /\ pc' = [pc EXCEPT ![t] = "writers_wait"]
            /\ UNCHANGED <<rwlock, writers_waiting, hold, call, timed>>
       ELSE /\ rwlock' = -1
            /\ writers_waiting' = writers_waiting - 1
            /\ hold' = [hold EXCEPT ![t] = "write"]
            /\ pc' = [pc EXCEPT ![t] = "idle"]
            /\ call' = [call EXCEPT ![t] = "none"]
            /\ timed' = [timed EXCEPT ![t] = FALSE]
            /\ UNCHANGED writers_ok
    /\ UNCHANGED <<readers_ok, wake>>

\* thread.py:68-70
demote(t) ==
    /\ pc[t] = "idle" /\ hold[t] = "write"
    /\ rwlock' = 1
    /\ hold' = [hold EXCEPT ![t] = "read"]
    /\ pc' = NotifyAllReaders(pc)
    /\ readers_ok' = {}
    /\ UNCHANGED <<writers_waiting, writers_ok, call, timed, wake>>

\* thread.py:74-80, the part of release under the monitor
release(t) ==
    /\ pc[t] = "idle" /\ hold[t] # "none"
    /\ rwlock' = ReleasedCount(rwlock)
    /\ hold' = [hold EXCEPT ![t] = "none"]
    /\ wake' = [wake EXCEPT ![t] = WakeChoice(rwlock', writers_waiting)]
    /\ IF wake'[t] = "nobody"
       THEN UNCHANGED <<pc, call>>
       ELSE /\ pc' = [pc EXCEPT ![t] = "notify"]
            /\ call' = [call EXCEPT ![t] = "release"]
    /\ UNCHANGED <<writers_waiting, readers_ok, writers_ok, timed>>

\* thread.py:81-86, release's notification, after the monitor was given up
release_notify(t) ==
    /\ pc[t] = "notify"
    /\ IF wake[t] = "writers"
       THEN /\ IF writers_ok = <<>>
               THEN /\ pc' = [pc EXCEPT ![t] = "idle"]
                    /\ UNCHANGED writers_ok
               ELSE /\ pc' = [pc EXCEPT ![t] = "idle", ![Head(writers_ok)] = "writers_woken"]
                    /\ writers_ok' = Tail(writers_ok)
            /\ UNCHANGED readers_ok
       ELSE /\ pc' = [NotifyAllReaders(pc) EXCEPT ![t] = "idle"]
            /\ readers_ok' = {}
            /\ UNCHANGED writers_ok
    /\ call' = [call EXCEPT ![t] = "none"]
    /\ wake' = [wake EXCEPT ![t] = "nobody"]
    /\ UNCHANGED <<rwlock, writers_waiting, hold, timed>>

\* thread.py:32, 46, 62: wait(timeout) returns by itself (with False) when the
\* timeout elapses; the waiter leaves the condition's list and, the value
\* returned being ignored, re-tests the loop as a notified waiter does.
RemoveFrom(s, t) == SelectSeq(s, LAMBDA x : x # t)

timeout_elapsed(t) ==
    /\ timed[t]
    /\ \/ /\ pc[t] = "readers_wait"
          /\ readers_ok' = readers_ok \ {t}
          /\ pc' = [pc EXCEPT ![t] = "readers_expired"]
          /\ UNCHANGED writers_ok
       \/ /\ pc[t] = "writers_wait"
          /\ writers_ok' = RemoveFrom(writers_ok, t)
          /\ pc' = [pc EXCEPT ![t] = "writers_expired"]
          /\ UNCHANGED readers_ok
    /\ UNCHANGED <<rwlock, writers_waiting, call, timed, hold, wake>>


(***************************************************************************)
(* KVCache                                                                 *)
(*                                                                         *)
(* Keys are the integers 0..MaxKey: key 0 is the key Python treats as      *)
(* false, the others are true.  A dict with insertion order is a sequence  *)
(* of <<key, value>> pairs with distinct keys.  An optional number is <<>>  *)
(* (None) or <<n>>.  An item of the priority queue is <<e>>, a bare number, *)
(* or <<e, k>>, a tuple; the queue is kept as the sorted sequence of its    *)
(* items, which is what a binary heap hands out.  One call reads one clock  *)
(* value.                                                                  *)
(***************************************************************************)
MaxKey   == 2
MaxVal   == 1
MaxSize  == 2
MaxExt   == 1
MaxTtl   == 2
MaxTime  == 2
MaxBatch == 2

Keys     == 0..MaxKey
Values   == 1..MaxVal

\* cache.py:25.  The horizon is scaled down from 10000 years of seconds to
\* fit the checker's integers; it stays above every clock value and every
\* finite expiry the model reaches, as in the program.
INFINITE_TIME_SEC  == 1000000

None       == <<>>
Some(x)    == <<x>>
Truthy(x)  == x # 0

\* the mappings a caller can pass to set: up to MaxBatch distinct keys
KvDicts ==
    { d \in UNION { [1..n -> Keys \X Values] : n \in 0..MaxBatch } :
        \A i, j \in DOMAIN d : i # j => d[i][1] # d[j][1] }

ExpireSecs == {None} \cup { Some(n) : n \in 0..MaxTtl } \cup {Some(INFINITE_TIME_SEC)}

\* ---- queue.PriorityQueue as KVCache uses it

\* the order heapq keeps: numbers by value, tuples lexicographically
ItemLess(a, b) ==
    \/ a[1] < b[1]
    \/ a[1] = b[1] /\ Len(a) = 2 /\ Len(b) = 2 /\ a[2] < b[2]

RECURSIVE SortedInsert(_, _)
SortedInsert(q, item) ==
    IF q = <<>> THEN <<item>>
    ELSE IF ItemLess(item, Head(q)) THEN <<item>> \o q
    ELSE <<Head(q)>> \o SortedInsert(Tail(q), item)

\* PriorityQueue.put(item, block): "ok" with the new queue, "Full" raised when
\* a bounded queue is full and block is false, "blocks" when it is full and
\* block is true (no timeout: the caller waits for a get that frees a slot)
PQFull(q, size) == size > 0 /\ Len(q) >= size

PQPut(q, size, item, block) ==
    IF PQFull(q, size)
    THEN [q |-> q, out |-> IF block THEN "blocks" ELSE "Full"]
    ELSE [q |-> SortedInsert(q, item), out |-> "ok"]

\* cache.py:110, 173: pop_value[1] needs a tuple; a number raises TypeError
Subscriptable(item) == Len(item) >= 2

\* ---- KVCache methods, as functions of the state they read

Size(kv) == Cardinality(DOMAIN kv)

KvPut(kv, k, e, v) == [x \in DOMAIN kv \cup {k} |-> IF x = k THEN <<e, v>> ELSE kv[x]]
KvDel(kv, k)       == [x \in DOMAIN kv \ {k} |-> kv[x]]

\* cache.py:84-86
ExpireValue(expire_sec, t) ==
    IF expire_sec # None /\ expire_sec[1] < INFINITE_TIME_SEC
    THEN expire_sec[1] + t
    ELSE INFINITE_TIME_SEC

\* cache.py:80
BatchTooLarge(kvdict, size) == size # 0 /\ Len(kvdict) > size

\* a capacity test that lets one key too many in
HasRoom_OffByOne(kv, size) == size = 0 \/ Size(kv) <= size

\* cache.py:99
HasRoom(kv, size) == size = 0 \/ Size(kv) < size

\* cache.py:100  self._sorted_keys.put(expire_value, key): the item is the
\* bare number and key is taken as the block argument
DirectPut(q, size, key, expire_value) == PQPut(q, size, Some(expire_value), Truthy(key))

\* cache.py:119
InsertedTooEarly(expire_value, popped) == expire_value < popped

\* cache.py:105-127, one turn of the eviction loop.  Result: the new index
\* and queue, whether the loop goes round again, and when it does not the
\* value returned and the exception that escaped ("none" when none did).
EvictStep(kv, q, size, key, value, expire_value) ==
    IF q = <<>>
    THEN [kv |-> kv, q |-> q, again |-> FALSE, ret |-> FALSE, exc |-> "none"]
    ELSE
    LET pop_value == Head(q)
        rest      == Tail(q)
        mine      == <<expire_value, key>>
    IN  IF ~Subscriptable(pop_value)
        THEN [kv |-> kv, q |-> rest, again |-> FALSE, ret |-> FALSE, exc |-> "TypeError"]
        ELSE IF pop_value[2] \notin DOMAIN kv
        THEN [kv |-> KvPut(kv, key, expire_value, value), q |-> SortedInsert(rest, mine),
              again |-> FALSE, ret |-> TRUE, exc |-> "none"]
        ELSE IF kv[pop_value[2]][1] > pop_value[1]
        THEN [kv |-> kv, q |-> SortedInsert(rest, mine),
              again |-> TRUE, ret |-> FALSE, exc |-> "none"]
        ELSE IF InsertedTooEarly(expire_value, pop_value[1])
        THEN [kv |-> kv, q |-> rest, again |-> FALSE, ret |-> FALSE, exc |-> "none"]
        ELSE [kv |-> KvPut(KvDel(kv, pop_value[2]), key, expire_value, value),
              q |-> SortedInsert(rest, mine), again |-> FALSE, ret |-> TRUE, exc |-> "none"]

\* cache.py:105-128, the eviction loop: turns until one returns
RECURSIVE EvictLoop(_, _, _, _, _, _)
EvictLoop(kv, q, size, key, value, expire_value) ==
    LET s == EvictStep(kv, q, size, key, value, expire_value)
    IN  IF s.again
        THEN EvictLoop(s.kv, s.q, size, key, value, expire_value)
        ELSE [kv |-> s.kv, q |-> s.q, ret |-> s.ret, exc |-> s.exc]

\* cache.py:97-128
heapq_newset(kv, q, size, key, value, expire_value) ==
    IF HasRoom(kv, size)
    THEN LET p == DirectPut(q, size, key, expire_value)
         IN  IF p.out = "ok"
             THEN [kv |-> KvPut(kv, key, expire_value, value), q |-> p.q,
                   ret |-> TRUE, exc |-> "none"]
             ELSE [kv |-> kv, q |-> q, ret |-> FALSE, exc |-> p.out]
    ELSE EvictLoop(kv, q, size, key, value, expire_value)

\* cache.py:88-94, the loop over the mapping's items from item i on.  The
\* result's ret is "done" (the loop ran out), "false" (return False at line 94)
\* or "raised"; exc names what was raised, at the item the loop stood at.
RECURSIVE SetItems(_, _, _, _, _, _)
SetItems(kv, q, size, kvdict, i, expire_value) ==
    IF i > Len(kvdict) THEN [kv |-> kv, q |-> q, ret |-> "done", exc |-> "none", at |-> i]
    ELSE
    LET k == kvdict[i][1]
        v == kvdict[i][2]
    IN  IF k \in DOMAIN kv
        THEN SetItems(KvPut(kv, k, expire_value, v), q, size, kvdict, i + 1, expire_value)
        ELSE LET r == heapq_newset(kv, q, size, k, v, expire_value)
             IN  IF r.exc # "none"
                 THEN [kv |-> r.kv, q |-> r.q, ret |-> "raised", exc |-> r.exc, at |-> i]
                 ELSE IF ~r.ret
                 THEN [kv |-> r.kv, q |-> r.q, ret |-> "false", exc |-> "none", at |-> i]
                 ELSE SetItems(r.kv, r.q, size, kvdict, i + 1, expire_value)

\* cache.py:56-70 and 72-95: what set returns.  _release_lock logs and
\* swallows an exception raised by the body, and set goes on to line 95.
SetReturns(r) == r.ret # "false"

\* cache.py:130-133
get_refreshed_expire_time(expire_value, t, extension) ==
    LET new_refresh == t + extension
        new_expire  == expire_value + extension
    IN  IF new_expire < new_refresh THEN new_expire ELSE new_refresh

\* cache.py:148
ExpiredOnRead(t, expire_value) == t > expire_value

\* cache.py:145-155: the new index and the value returned (None or <<v>>)
GetBody(kv, key, t, extension) ==
    IF key \notin DOMAIN kv THEN [kv |-> kv, ret |-> None]
    ELSE IF ExpiredOnRead(t, kv[key][1]) THEN [kv |-> KvDel(kv, key), ret |-> None]
    ELSE [kv |-> KvPut(kv, key, get_refreshed_expire_time(kv[key][1], t, extension), kv[key][2]),
          ret |-> Some(kv[key][2])]

\* cache.py:179
NotYetExpired(expire_value, t) == expire_value > t

\* cache.py:168-187, the sweep.  result is the mapping built so far, n the
\* local num.
RECURSIVE PopLoop(_, _, _, _, _, _)
PopLoop(kv, q, result, n, all_expired, t) ==
    IF q = <<>> THEN [kv |-> kv, q |-> q, result |-> result, exc |-> "none"]
    ELSE
    LET pop_value == Head(q)
        rest      == Tail(q)
    IN  IF ~Subscriptable(pop_value)
        THEN [kv |-> kv, q |-> rest, result |-> result, exc |-> "TypeError"]
        ELSE IF pop_value[2] \notin DOMAIN kv
        THEN PopLoop(kv, rest, result, n, all_expired, t)
        ELSE
        LET k    == pop_value[2]
            real == kv[k]
        IN  IF real[1] > pop_value[1]
            THEN LET q2 == SortedInsert(rest, <<real[1], k>>)
                 IN  IF ~all_expired /\ n <= 0
                     THEN [kv |-> kv, q |-> q2, result |-> result, exc |-> "none"]
                     ELSE PopLoop(kv, q2, result, n, all_expired, t)
            ELSE IF NotYetExpired(real[1], t)
            THEN [kv |-> kv, q |-> rest, result |-> result, exc |-> "none"]
            ELSE LET n2 == IF all_expired THEN n ELSE n - 1
                     r2 == KvPut(result, k, real[1], real[2])
                 IN  IF ~all_expired /\ n2 <= 0
                     THEN [kv |-> KvDel(kv, k), q |-> rest, result |-> r2, exc |-> "none"]
                     ELSE PopLoop(KvDel(kv, k), rest, r2, n2, all_expired, t)

\* cache.py:164-188
pop_n_expired_body(kv, q, num, t) == PopLoop(kv, q, <<>>, num, num = 0, t)


(***************************************************************************)
(* SpecCache: one client, one call after another.  With a single thread    *)
(* _release_lock never waits and leaves the lock as it found it, so the    *)
(* lock's variables do not change here.                                    *)
(***************************************************************************)
MaxNum == 1

\* an unbounded cache's queue only grows; the client stops adding to it here
MaxQueue == 2

\* op: the method; ok: what set returned; got: what get returned (None or
\* <<v>>); result: the mapping pop_n_expired returned; exc: the exception the
\* body raised and _release_lock swallowed, or "blocks" for a call that never
\* returned
NoCall == [op |-> "none", ok |-> TRUE, got |-> None, result |-> <<>>, exc |-> "none"]

\* cache.py:43-54.  The client passes a time_extension_sec > 0 (line 46-47).
CacheInit ==
    /\ maxsize \in 0..MaxSize
    /\ time_extension \in 1..MaxExt
    /\ kv_data = <<>>
    /\ sorted_keys = <<>>
    /\ now = 0
    /\ hung = FALSE
    /\ last = NoCall

IdleThreads ==
    /\ op = [t \in Threads |-> [name |-> "none"]]
    /\ ahead = [t \in Threads |-> {}]

InitCache == LockInit /\ CacheInit /\ IdleThreads

\* cache.py:72-95
Set(kvdict, expire_sec) ==
    /\ ~hung
    /\ maxsize = 0 => Len(sorted_keys) + Len(kvdict) <= MaxQueue
    /\ IF BatchTooLarge(kvdict, maxsize)
       THEN /\ last' = [NoCall EXCEPT !.op = "set", !.ok = FALSE]
            /\ UNCHANGED <<kv_data, sorted_keys, hung>>
       ELSE LET r == SetItems(kv_data, sorted_keys, maxsize, kvdict, 1,
                              ExpireValue(expire_sec, now))
            IN  /\ kv_data' = r.kv
                /\ sorted_keys' = r.q
                /\ hung' = (r.exc = "blocks")
                /\ last' = [NoCall EXCEPT !.op = "set", !.ok = SetReturns(r), !.exc = r.exc]
    /\ UNCHANGED <<maxsize, time_extension, now>>

\* cache.py:135-155
Get(key) ==
    /\ ~hung
    /\ LET r == GetBody(kv_data, key, now, time_extension)
       IN  /\ kv_data' = r.kv
           /\ last' = [NoCall EXCEPT !.op = "get", !.got = r.ret]
    /\ UNCHANGED <<maxsize, time_extension, sorted_keys, now, hung>>

\* cache.py:157-188
PopNExpired(num) ==
    /\ ~hung
    /\ LET r == pop_n_expired_body(kv_data, sorted_keys, num, now)
       IN  /\ kv_data' = r.kv
           /\ sorted_keys' = r.q
           /\ last' = [NoCall EXCEPT !.op = "pop_n_expired", !.result = r.result,
                          !.exc = r.exc]
    /\ UNCHANGED <<maxsize, time_extension, now, hung>>

\* cache.py:193-201
Clear ==
    /\ ~hung
    /\ kv_data' = <<>>
    /\ sorted_keys' = <<>>
    /\ last' = [NoCall EXCEPT !.op = "clear"]
    /\ UNCHANGED <<maxsize, time_extension, now, hung>>

\* the clock moves between calls
Tick ==
    /\ ~hung
    /\ now < MaxTime
    /\ now' = now + 1
    /\ UNCHANGED <<maxsize, time_extension, kv_data, sorted_keys, hung, last>>

NextCache ==
    \/ /\ \E kvdict \in KvDicts, expire_sec \in ExpireSecs : Set(kvdict, expire_sec)
       /\ UNCHANGED <<lockvars, clientvars>>
    \/ /\ \E key \in Keys : Get(key)
       /\ UNCHANGED <<lockvars, clientvars>>
    \/ /\ \E num \in 0..MaxNum : PopNExpired(num)
       /\ UNCHANGED <<lockvars, clientvars>>
    \/ /\ Clear
       /\ UNCHANGED <<lockvars, clientvars>>
    \/ /\ Tick
       /\ UNCHANGED <<lockvars, clientvars>>

SpecCache == InitCache /\ [][NextCache]_vars

(***************************************************************************)
(* SpecLock: the threads call the RWLock methods directly.                 *)
(***************************************************************************)
\* thread.py:43-47: the threads waiting in acquire_write
WaitingWriters == { w \in Threads : call[w] = "acquire_write" }

\* The history a step leaves.  A thread that starts to wait in acquire_read
\* (thread.py:31-32) notes the threads waiting in acquire_write at that moment;
\* a writer leaves the note when it gives up the write lock, by release
\* (thread.py:75-76) or by demote (thread.py:67); the note ends with the call.
AheadAfter ==
    [r \in Threads |->
        IF call'[r] # "acquire_read" THEN {}
        ELSE IF call[r] # "acquire_read" THEN WaitingWriters
        ELSE ahead[r] \ { w \in Threads : hold[w] = "write" /\ hold'[w] # "write" }]

InitLock ==
    /\ LockInit
    /\ IdleThreads
    /\ maxsize = 0 /\ time_extension = 1
    /\ kv_data = <<>> /\ sorted_keys = <<>> /\ now = 0 /\ hung = FALSE
    /\ last = NoCall

NextLock ==
    \/ \E t \in Threads, timeout \in BOOLEAN :
          acquire_read(t, timeout) /\ ahead' = AheadAfter /\ UNCHANGED <<cachevars, op>>
    \/ \E t \in Threads : acquire_read_resume(t) /\ ahead' = AheadAfter /\ UNCHANGED <<cachevars, op>>
    \/ \E t \in Threads, timeout \in BOOLEAN :
          acquire_write(t, timeout) /\ ahead' = AheadAfter /\ UNCHANGED <<cachevars, op>>
    \/ \E t \in Threads, timeout \in BOOLEAN :
          promote(t, timeout) /\ ahead' = AheadAfter /\ UNCHANGED <<cachevars, op>>
    \/ \E t \in Threads : write_resume(t) /\ ahead' = AheadAfter /\ UNCHANGED <<cachevars, op>>
    \/ \E t \in Threads : demote(t) /\ ahead' = AheadAfter /\ UNCHANGED <<cachevars, op>>
    \/ \E t \in Threads : release(t) /\ ahead' = AheadAfter /\ UNCHANGED <<cachevars, op>>
    \/ \E t \in Threads : release_notify(t) /\ ahead' = AheadAfter /\ UNCHANGED <<cachevars, op>>
    \/ \E t \in Threads : timeout_elapsed(t) /\ ahead' = AheadAfter /\ UNCHANGED <<cachevars, op>>

SpecLock == InitLock /\ [][NextLock]_vars

(***************************************************************************)
(* SpecLockFair: readers and writers under a fair scheduler.  The threads  *)
(* call acquire_read, acquire_write and release; a thread that has been    *)
(* woken or has a notification to send is eventually run (weak fairness on *)
(* the steps inside the calls), and every holder eventually calls release. *)
(* New calls may arrive at any time and are not forced.                    *)
(***************************************************************************)
fair_acquire_read_resume(t) ==
    acquire_read_resume(t) /\ ahead' = AheadAfter /\ UNCHANGED <<cachevars, op>>

fair_write_resume(t) ==
    write_resume(t) /\ ahead' = AheadAfter /\ UNCHANGED <<cachevars, op>>

fair_release(t) ==
    release(t) /\ ahead' = AheadAfter /\ UNCHANGED <<cachevars, op>>

fair_release_notify(t) ==
    release_notify(t) /\ ahead' = AheadAfter /\ UNCHANGED <<cachevars, op>>

NextLockFair ==
    \/ \E t \in Threads, timeout \in BOOLEAN :
          acquire_read(t, timeout) /\ ahead' = AheadAfter /\ UNCHANGED <<cachevars, op>>
    \/ \E t \in Threads, timeout \in BOOLEAN :
          acquire_write(t, timeout) /\ ahead' = AheadAfter /\ UNCHANGED <<cachevars, op>>
    \/ \E t \in Threads : fair_acquire_read_resume(t)
    \/ \E t \in Threads : fair_write_resume(t)
    \/ \E t \in Threads : fair_release(t)
    \/ \E t \in Threads : fair_release_notify(t)
    \/ \E t \in Threads : timeout_elapsed(t) /\ ahead' = AheadAfter /\ UNCHANGED <<cachevars, op>>

FairScheduling ==
    \A t \in Threads :
        /\ WF_vars(fair_acquire_read_resume(t))
        /\ WF_vars(fair_write_resume(t))
        /\ WF_vars(fair_release(t))
        /\ WF_vars(fair_release_notify(t))

SpecLockFair == InitLock /\ [][NextLockFair]_vars /\ FairScheduling

(***************************************************************************)
(* SpecPromoteFair: promotion under a fair scheduler.  The threads take    *)
(* read holds and the write lock, promote their read holds (no timeout)    *)
(* and release.  The scheduler is fair as in SpecLockFair: a woken thread  *)
(* is run, a pending notification is sent, and no holder keeps its hold    *)
(* for ever (it releases, or, holding a read hold, promotes).              *)
(***************************************************************************)
NextPromoteFair ==
    \/ \E t \in Threads :
          acquire_read(t, FALSE) /\ ahead' = AheadAfter /\ UNCHANGED <<cachevars, op>>
    \/ \E t \in Threads :
          acquire_write(t, FALSE) /\ ahead' = AheadAfter /\ UNCHANGED <<cachevars, op>>
    \/ \E t \in Threads :
          promote(t, FALSE) /\ ahead' = AheadAfter /\ UNCHANGED <<cachevars, op>>
    \/ \E t \in Threads : fair_acquire_read_resume(t)
    \/ \E t \in Threads : fair_write_resume(t)
    \/ \E t \in Threads : fair_release(t)
    \/ \E t \in Threads : fair_release_notify(t)

SpecPromoteFair == InitLock /\ [][NextPromoteFair]_vars /\ FairScheduling

(***************************************************************************)
(* SpecConc: threads call the KVCache methods concurrently.  Each call     *)
(* takes the lock as _release_lock does (cache.py:56-70; its               *)
(* acquire_read_lock, acquire_write_lock and release_*_lock are RWLock's   *)
(* acquire_read, acquire_write and release, called without a timeout),     *)
(* runs its body while it holds the lock, and releases.  The bodies that   *)
(* take W_LOCK and the sweep take their effect at the moment they end; get *)
(* runs statement by statement.                                            *)
(***************************************************************************)
NumCallers == 2
Callers    == 1..NumCallers

Methods == {"set", "get", "pop_n_expired", "clear"}

\* cache.py:87, 144, 167, 197: the lock type each method passes to _release_lock
LockType(name) == IF name \in {"set", "clear"} THEN "W_LOCK" ELSE "R_LOCK"

NoOp == [name |-> "none"]

InitConc ==
    /\ LockInit
    /\ IdleThreads
    /\ maxsize = 1 /\ time_extension = 1
    /\ kv_data = <<>> /\ sorted_keys = <<>> /\ now = 0 /\ hung = FALSE
    /\ last = NoCall

\* the thread is between _release_lock's acquire and its release
InBody(t) == op[t].name # "none" /\ hold[t] # "none" /\ pc[t] = "idle"

\* cache.py:58-61: the call enters _release_lock
conc_call(t, name) ==
    /\ op[t].name = "none"
    /\ op' = [op EXCEPT ![t] = [name |-> name]]
    /\ IF LockType(name) = "R_LOCK" THEN acquire_read(t, FALSE) ELSE acquire_write(t, FALSE)
    /\ UNCHANGED cachevars

\* cache.py:66-70: the finally clause of _release_lock
conc_exit(t) ==
    /\ release(t)
    /\ op' = [op EXCEPT ![t] = NoOp]

\* cache.py:87-95 under the lock; a put that blocks leaves the thread inside,
\* holding the lock, with the rest of its loop still to run
conc_set(t, kvdict, expire_sec) ==
    /\ InBody(t) /\ op[t].name = "set"
    /\ ~BatchTooLarge(kvdict, maxsize)
    /\ LET expire_value == ExpireValue(expire_sec, now)
           r == SetItems(kv_data, sorted_keys, maxsize, kvdict, 1, expire_value)
       IN  /\ kv_data' = r.kv
           /\ sorted_keys' = r.q
           /\ last' = [NoCall EXCEPT !.op = "set", !.ok = SetReturns(r), !.exc = r.exc]
           /\ IF r.exc = "blocks"
              THEN /\ op' = [op EXCEPT ![t] = [name |-> "put", kvdict |-> kvdict,
                                               at |-> r.at, expire_value |-> expire_value]]
                   /\ UNCHANGED lockvars
              ELSE conc_exit(t)
    /\ UNCHANGED <<maxsize, time_extension, now, hung>>

\* cache.py:100-102 and on: another thread's get_nowait freed a slot, the
\* blocked put goes through and set's loop continues
conc_put_resume(t) ==
    /\ InBody(t) /\ op[t].name = "put"
    /\ ~PQFull(sorted_keys, maxsize)
    /\ LET o  == op[t]
           k  == o.kvdict[o.at][1]
           v  == o.kvdict[o.at][2]
           r  == SetItems(KvPut(kv_data, k, o.expire_value, v),
                          SortedInsert(sorted_keys, Some(o.expire_value)),
                          maxsize, o.kvdict, o.at + 1, o.expire_value)
       IN  /\ kv_data' = r.kv
           /\ sorted_keys' = r.q
           /\ last' = [NoCall EXCEPT !.op = "set", !.ok = SetReturns(r), !.exc = r.exc]
           /\ IF r.exc = "blocks"
              THEN /\ op' = [op EXCEPT ![t] = [o EXCEPT !.at = r.at]]
                   /\ UNCHANGED lockvars
              ELSE conc_exit(t)
    /\ UNCHANGED <<maxsize, time_extension, now, hung>>

\* cache.py:144-155 under the lock.  get takes R_LOCK, so two calls can be
\* inside together; each statement of the body is a step of its own.
\* cache.py:145-146: the membership test
conc_get_test(t, key) ==
    /\ InBody(t) /\ op[t].name = "get"
    /\ IF key \notin DOMAIN kv_data
       THEN /\ last' = [NoCall EXCEPT !.op = "get"]
            /\ conc_exit(t)
       ELSE /\ op' = [op EXCEPT ![t] = [name |-> "get_found", key |-> key]]
            /\ UNCHANGED <<lockvars, last>>
    /\ UNCHANGED <<maxsize, time_extension, kv_data, sorted_keys, now, hung>>

\* cache.py:147: expire_value, value = self._kv_data[key] raises KeyError when
\* the key has gone since the test; _release_lock swallows it (line 64-65)
conc_get_read(t) ==
    /\ InBody(t) /\ op[t].name = "get_found"
    /\ LET key == op[t].key
       IN  IF key \notin DOMAIN kv_data
           THEN /\ last' = [NoCall EXCEPT !.op = "get", !.exc = "KeyError"]
                /\ conc_exit(t)
           ELSE /\ op' = [op EXCEPT ![t] = [name |-> "get_read", key |-> key,
                                            expire_value |-> kv_data[key][1],
                                            value |-> kv_data[key][2]]]
                /\ UNCHANGED <<lockvars, last>>
    /\ UNCHANGED <<maxsize, time_extension, kv_data, sorted_keys, now, hung>>

\* cache.py:148-155: del self._kv_data[key] raises KeyError when the key has
\* gone; the refresh writes the entry back whether or not it is still there
conc_get_finish(t) ==
    /\ InBody(t) /\ op[t].name = "get_read"
    /\ LET o == op[t]
       IN  IF ExpiredOnRead(now, o.expire_value)
           THEN IF o.key \notin DOMAIN kv_data
                THEN /\ last' = [NoCall EXCEPT !.op = "get", !.exc = "KeyError"]
                     /\ UNCHANGED kv_data
                ELSE /\ last' = [NoCall EXCEPT !.op = "get"]
                     /\ kv_data' = KvDel(kv_data, o.key)
           ELSE /\ kv_data' = KvPut(kv_data, o.key,
                                    get_refreshed_expire_time(o.expire_value, now, time_extension),
                                    o.value)
                /\ last' = [NoCall EXCEPT !.op = "get", !.got = Some(o.value)]
    /\ conc_exit(t)
    /\ UNCHANGED <<maxsize, time_extension, sorted_keys, now, hung>>

\* cache.py:167-188 under the lock
conc_pop_n_expired(t, num) ==
    /\ InBody(t) /\ op[t].name = "pop_n_expired"
    /\ LET r == pop_n_expired_body(kv_data, sorted_keys, num, now)
       IN  /\ kv_data' = r.kv
           /\ sorted_keys' = r.q
           /\ last' = [NoCall EXCEPT !.op = "pop_n_expired", !.result = r.result,
                          !.exc = r.exc]
    /\ conc_exit(t)
    /\ UNCHANGED <<maxsize, time_extension, now, hung>>

\* cache.py:197-201 under the lock
conc_clear(t) ==
    /\ InBody(t) /\ op[t].name = "clear"
    /\ kv_data' = <<>>
    /\ sorted_keys' = <<>>
    /\ last' = [NoCall EXCEPT !.op = "clear"]
    /\ conc_exit(t)
    /\ UNCHANGED <<maxsize, time_extension, now, hung>>

\* the mappings the concurrent callers pass: one key
OneKeyDicts == { d \in KvDicts : Len(d) = 1 }

\* the expire_sec the concurrent callers pass: none (the entry never expires)
\* or 0 (the entry is expired from the next tick of the clock on)
ConcExpireSecs == {None, Some(0)}

NextConc ==
    \/ \E t \in Callers, name \in Methods : conc_call(t, name) /\ UNCHANGED ahead
    \/ \E t \in Callers : acquire_read_resume(t) /\ UNCHANGED <<cachevars, clientvars>>
    \/ \E t \in Callers : write_resume(t) /\ UNCHANGED <<cachevars, clientvars>>
    \/ \E t \in Callers : release_notify(t) /\ UNCHANGED <<cachevars, clientvars>>
    \/ \E t \in Callers, kvdict \in OneKeyDicts, expire_sec \in ConcExpireSecs :
          conc_set(t, kvdict, expire_sec) /\ UNCHANGED ahead
    \/ \E t \in Callers : conc_put_resume(t) /\ UNCHANGED ahead
    \/ \E t \in Callers, key \in Keys : conc_get_test(t, key) /\ UNCHANGED ahead
    \/ \E t \in Callers : conc_get_read(t) /\ UNCHANGED ahead
    \/ \E t \in Callers : conc_get_finish(t) /\ UNCHANGED ahead
    \/ \E t \in Callers, num \in 0..MaxNum : conc_pop_n_expired(t, num) /\ UNCHANGED ahead
    \/ \E t \in Callers : conc_clear(t) /\ UNCHANGED ahead
    \/ Tick /\ UNCHANGED <<lockvars, clientvars>>

SpecConc == InitConc /\ [][NextConc]_vars

(***************************************************************************)
(* SpecEvict: _heapq_newset's eviction loop on its own, one turn of the    *)
(* loop per step.  The loop is written for a queue of records              *)
(* (expire_value, key), as lines 112, 117 and 126 push them; the inputs    *)
(* are drawn from such queues: a full index, a queue of at most maxsize    *)
(* records in priority order, and the key, value and expiry of the entry   *)
(* to insert (a key the index does not hold, line 93).  In the whole       *)
(* program line 100 puts a bare number at the head of every queue the loop *)
(* meets, and these turns are not reached (SpecCache).                     *)
(***************************************************************************)
\* the expiry instants of the entries and records the loop is given
MaxExpire == 2
LoopTimes == 0..MaxExpire

\* cache.py:112, 117, 126: the records the loop pushes
Records == LoopTimes \X Keys

\* queue.PriorityQueue(maxsize): at most size items, smallest first
RecordQueues(size) ==
    { q \in UNION { [1..n -> Records] : n \in 0..size } :
        \A i \in 1..(Len(q) - 1) : ~ItemLess(q[i + 1], q[i]) }

\* cache.py:99: the loop is entered with len(self._kv_data) = maxsize
FullIndexes(size) ==
    UNION { [D -> LoopTimes \X Values] : D \in { D \in SUBSET Keys : Cardinality(D) = size } }

InitEvict ==
    /\ LockInit
    /\ maxsize \in 1..MaxSize
    /\ time_extension = 1 /\ now = 0 /\ hung = FALSE /\ last = NoCall
    /\ kv_data \in FullIndexes(maxsize)
    /\ sorted_keys \in RecordQueues(maxsize)
    /\ ahead = [t \in Threads |-> {}]
    /\ \E key \in Keys \ DOMAIN kv_data, value \in Values, expire_value \in LoopTimes :
          op = [t \in Threads |->
                  IF t = 1
                  THEN [name |-> "_heapq_newset", key |-> key, value |-> value,
                        expire_value |-> expire_value]
                  ELSE NoOp]

\* cache.py:105-127: one turn of the while loop
evict_turn ==
    /\ op[1].name = "_heapq_newset"
    /\ LET o == op[1]
           s == EvictStep(kv_data, sorted_keys, maxsize, o.key, o.value, o.expire_value)
       IN  /\ kv_data' = s.kv
           /\ sorted_keys' = s.q
           /\ IF s.again
              THEN UNCHANGED <<op, last>>
              ELSE /\ op' = [op EXCEPT ![1] = NoOp]
                   /\ last' = [NoCall EXCEPT !.op = "set", !.ok = s.ret, !.exc = s.exc]
    /\ UNCHANGED <<lockvars, maxsize, time_extension, now, hung, ahead>>

NextEvict == evict_turn

SpecEvict == InitEvict /\ [][NextEvict]_vars

(***************************************************************************)
(* The claims                                                              *)
(***************************************************************************)
Writers == { t \in Threads : hold[t] = "write" }
Readers == { t \in Threads : hold[t] = "read" }

\* C1 (SpecLock): in every reachable state at most one thread holds the write
\* lock; acquire_write does not return while another thread holds it.
C1_AtMostOneWriter == Cardinality(Writers) <= 1

\* C2 (SpecLock): in every reachable state no thread holds a read hold while
\* another thread holds the write hold.
C2_ReadersExcludeWriter ==
    \A r, w \in Threads : r # w => ~(hold[r] = "read" /\ hold[w] = "write")

\* C3 (SpecConc): a thread inside the body of set, get, pop_n_expired or clear
\* holds the lock exclusively: it owns the write hold and no other thread owns
\* any hold, so no two bodies run at the same time.
C3_BodiesHoldTheLockExclusively ==
    \A t \in Threads :
        InBody(t) => /\ hold[t] = "write"
                     /\ \A u \in Threads \ {t} : hold[u] = "none"

\* C4 (SpecCache): with maxsize = N > 0 the primary index holds at most N keys
\* whenever a call has completed.
C4_IndexWithinMaxsize == maxsize > 0 => Size(kv_data) <= maxsize

\* C4's case: a set of a new key has just run against a full index (only the
\* eviction loop raises TypeError) and the index still holds exactly N keys.
C4_Witness ==
    /\ maxsize > 0
    /\ Size(kv_data) = maxsize
    /\ last.op = "set" /\ last.exc = "TypeError"

\* the live keys whose expiry in the index is the smallest
Oldest(kv) == { k \in DOMAIN kv : \A x \in DOMAIN kv : kv[k][1] <= kv[x][1] }

\* C5 (SpecCache): with the index full (N keys), a set of one new key, whatever
\* its ttl, returns True, removes exactly one entry, one whose expiry in the
\* index is the smallest, inserts the new key and leaves size() at N.
C5_FullSetEvictsOldest ==
    [][\A kvdict \in OneKeyDicts, expire_sec \in ExpireSecs :
         ( /\ Set(kvdict, expire_sec)
           /\ maxsize > 0
           /\ Size(kv_data) = maxsize
           /\ kvdict[1][1] \notin DOMAIN kv_data )
         => /\ last'.ok
            /\ Size(kv_data') = maxsize
            /\ \E victim \in Oldest(kv_data) :
                  DOMAIN kv_data' = (DOMAIN kv_data \ {victim}) \cup {kvdict[1][1]}
      ]_vars

\* C6 (SpecCache): get(k) on a present key whose expiry is finite and <= now
\* (equality included) deletes the entry and returns not-found.
C6_GetDeletesAtOrBeforeNow ==
    [][\A k \in Keys :
         ( /\ Get(k)
           /\ k \in DOMAIN kv_data
           /\ kv_data[k][1] # INFINITE_TIME_SEC
           /\ kv_data[k][1] <= now )
         => /\ k \notin DOMAIN kv_data'
            /\ last'.got = None
      ]_vars

\* C7 (SpecCache): get(k) on a live entry with finite expiry e returns the
\* value, sets the expiry to now + extension, and the new expiry is not less
\* than e.
C7_HitNeverShortens ==
    [][\A k \in Keys :
         ( /\ Get(k)
           /\ k \in DOMAIN kv_data
           /\ kv_data[k][1] # INFINITE_TIME_SEC
           /\ kv_data[k][1] >= now )
         => /\ last'.got = Some(kv_data[k][2])
            /\ k \in DOMAIN kv_data'
            /\ kv_data'[k][1] = now + time_extension
            /\ kv_data'[k][1] >= kv_data[k][1]
      ]_vars

\* C8 (SpecCache): get(k) on an entry that carries the infinite sentinel
\* returns the value and leaves the sentinel expiry in place.
C8_SentinelSurvivesHit ==
    [][\A k \in Keys :
         ( /\ Get(k)
           /\ k \in DOMAIN kv_data
           /\ kv_data[k][1] = INFINITE_TIME_SEC )
         => /\ last'.got # None
            /\ k \in DOMAIN kv_data'
            /\ kv_data'[k][1] = INFINITE_TIME_SEC
      ]_vars

\* C9 (SpecCache): pop_n_expired(0) returns every entry whose expiry in the
\* index is <= now and removes each of them from the index.
C9_SweepReturnsAllExpired ==
    [][PopNExpired(0)
         => \A k \in DOMAIN kv_data :
               kv_data[k][1] <= now
               => /\ k \in DOMAIN last'.result
                  /\ k \notin DOMAIN kv_data'
      ]_vars

\* C10 (SpecCache): a set that returns False leaves the primary index as it
\* was before the call, also for keys earlier in the same mapping.
C10_FailedSetChangesNothing ==
    [][\A kvdict \in KvDicts, expire_sec \in ExpireSecs :
         (Set(kvdict, expire_sec) /\ ~last'.ok) => kv_data' = kv_data
      ]_vars

\* C11 (SpecConc): a get that reaches line 148 with the entry it read ends
\* without a failure (no second delete of an entry another get has already
\* deleted), and when the entry it read is still live the caller receives
\* the stored value.
C11_ConcurrentGetsDeleteOnce ==
    [][\A t \in Callers :
          conc_get_finish(t) =>
             /\ last'.exc = "none"
             /\ ~ExpiredOnRead(now, op[t].expire_value) => last'.got = Some(op[t].value)]_vars

\* C12 (SpecLock): writer preference.  An acquire_read call returns only when
\* every thread that was waiting in acquire_write when the call started has
\* since had the write lock and given it up; the readers that held the lock
\* before keep their holds (no step takes a read hold from a thread other
\* than the one that releases or promotes).
C12_WriterPreference ==
    [][\A r \in Threads :
          /\ (hold[r] = "none" /\ hold'[r] = "read") =>
                IF call[r] = "acquire_read" THEN ahead[r] = {} ELSE WaitingWriters = {}
          /\ (hold[r] = "read" /\ hold'[r] # "read") =>
                (pc[r] = "idle" /\ \A u \in Threads \ {r} : hold'[u] = hold[u])]_vars

\* C13 (SpecLockFair): no writer starvation.  Under a fair scheduler, with
\* read calls free to arrive at any time and every holder eventually
\* releasing, a thread waiting in acquire_write is eventually granted the
\* write lock.
C13_WaitingWriterIsGranted ==
    \A w \in Threads : (call[w] = "acquire_write") ~> (hold[w] = "write")

\* a writer that waited behind a reader has been notified by that reader's
\* release while an acquire_read call is held back behind it
C13_Witness ==
    \E w \in Threads, r \in Threads :
        /\ call[w] = "acquire_write" /\ pc[w] = "writers_woken" /\ rwlock = 0
        /\ call[r] = "acquire_read" /\ w \in ahead[r]

\* C14 (SpecLock): a timed acquire_read, acquire_write or promote whose timeout
\* has elapsed while its loop test is still true fails: the call ends, the
\* caller holds nothing, and _rwlock and _writers_waiting are as without the
\* call (a waiting writer's own count taken off).  And a call returns with
\* the lock only when its loop test is false.
C14_TimeoutFails ==
    [][\A t \in Threads :
          /\ ( /\ acquire_read_resume(t) /\ pc[t] = "readers_expired"
               /\ ReadMustWait(rwlock, writers_waiting) )
             => ( /\ pc'[t] = "idle" /\ call'[t] = "none" /\ hold'[t] = "none"
                  /\ rwlock' = rwlock /\ writers_waiting' = writers_waiting )
          /\ ( /\ write_resume(t) /\ pc[t] = "writers_expired"
               /\ WriteMustWait(rwlock) )
             => ( /\ pc'[t] = "idle" /\ call'[t] = "none" /\ hold'[t] = "none"
                  /\ writers_waiting' = writers_waiting - 1 )
          /\ (acquire_read_resume(t) /\ hold'[t] = "read")
             => ~ReadMustWait(rwlock, writers_waiting)
          /\ (write_resume(t) /\ hold'[t] = "write") => ~WriteMustWait(rwlock)]_vars

\* C15 (SpecCache): round trip.  From every reachable state, for every key k,
\* value v and finite ttl T > 0, a set({k: v}, T) that returns, followed by
\* get(k) at any moment before T has elapsed, gives v.
C15_SetThenGetReturnsValue ==
    [][\A k \in Keys, v \in Values, T \in 1..MaxTtl :
          (Set(<<<<k, v>>>>, Some(T)) /\ ~hung') =>
             \A d \in 0..(T - 1) :
                GetBody(kv_data', k, now + d, time_extension).ret = Some(v)]_vars

\* C16 (SpecCache): every call runs to completion and releases the lock:
\* neither the eviction loop nor a push onto the expiry queue leaves the
\* caller blocked inside set, whether maxsize is bounded or not.
C16_EveryCallReturns == ~hung /\ last.exc # "blocks"

\* the record at the head of the queue and its key's entry in the index
HeadRecord == Head(sorted_keys)
HeadEntry  == kv_data[HeadRecord[2]]

C19_PromoteReturnsExclusive ==
    [][\A t \in Threads :
          ( /\ hold[t] # "write" /\ hold'[t] = "write"
            /\ (hold[t] = "read" \/ call[t] = "promote") )
          => \A u \in Threads \ {t} : hold'[u] = "none"]_vars

\* C20 (SpecLock): counter consistency.  _rwlock is -1 exactly when one thread
\* holds the write lock, and otherwise it is the number of threads holding a
\* read hold; so release never leaves _rwlock at -1 with no writer.
C20_CounterMatchesHolders ==
    IF Writers # {}
    THEN Cardinality(Writers) = 1 /\ rwlock = -1
    ELSE rwlock = Cardinality(Readers)

\* C21 (SpecCache): queue coverage.  After every completed call, every key of
\* the index has at least one record (expiry, key) in the expiry queue whose
\* expiry is not later than the key's expiry in the index.
C21_QueueCoversIndex ==
    ~hung =>
       \A k \in DOMAIN kv_data :
          \E i \in DOMAIN sorted_keys :
             /\ Subscriptable(sorted_keys[i])
             /\ sorted_keys[i][2] = k
             /\ sorted_keys[i][1] <= kv_data[k][1]

====
